---- MODULE Spec2Model ----
(***************************************************************************)
(* A model of the mnemonic codec of src/src/lib.rs and of its reference    *)
(* word-list provider src/src/regular.rs: the WordSet object (an ordered   *)
(* sequence of 11-bit indices), its constructors new() and from_entropy(), *)
(* add_word(), to_entropy(), to_phrase(), Bits11::from() and the drop of   *)
(* a WordSet, together with the memory each call releases.                 *)
(*                                                                         *)
(* Bytes are naturals below 256, indices naturals below 2^16 (u16), bits   *)
(* are BOOLEANs, strings are sequences of character codes (0 is the single *)
(* space, 1..26 are the letters a..z).                                     *)
(***************************************************************************)
EXTENDS Naturals, Integers, Sequences, FiniteSets, TLC

VARIABLES
    live,      \* TRUE while the caller owns a WordSet
    ws,        \* WordSet.bits11_set of the owned WordSet (<<>> when none)
    hist,      \* how ws came to be (history): [kind, src, bit]
    phrase,    \* the phrase the caller keeps of a set made by from_entropy
    phraseSrc, \* the entropy that phrase encodes (history)
    res,       \* the last call and what it returned: [op, arg, tag, val]
    freed,     \* memory released by the last call and what it still holds
    salt       \* selects the hash function of this behaviour

vars == <<live, ws, hist, phrase, phraseSrc, res, freed, salt>>

---------------------------------------------------------------------------
(* Program constants.                                                      *)

TOTAL_WORDS == 2048
WORD_MAX_LEN == 8
SEPARATOR_LEN == 1
MAX_SEED_LEN == 24
BITS_IN_BYTE == 8
BITS_IN_U11 == 11

(* Bounds of the model.                                                    *)

\* hash functions tried (one per behaviour)
NumSalts == 2
\* entropy contents tried per entropy length
NumPat == 3
\* entropy lengths 0 .. MaxEntLen are tried
MaxEntLen == 33
\* words are typed freely (not read off the kept phrase) below this length
MaxTyped == 1

---------------------------------------------------------------------------
(* Arithmetic helpers.                                                     *)

RECURSIVE Pow2(_)
Pow2(n) == IF n = 0 THEN 1 ELSE 2 * Pow2(n - 1)

\* bit `k` (0 = least significant) of the natural `v`
BitOf(v, k) == (v \div Pow2(k)) % 2 = 1

Min(a, b) == IF a < b THEN a ELSE b

---------------------------------------------------------------------------
(* The word list (crate::wordlist::WORDLIST_ENGLISH): 2048 distinct        *)
(* lower-case words in alphabetical order, none longer than WORD_MAX_LEN.  *)
(* Its i-th word is modelled by the three letters spelling i in base 26.   *)

WordAt(i) == <<(i \div 676) + 1, ((i \div 26) % 26) + 1, (i % 26) + 1>>

WORDLIST_ENGLISH == [i \in 0 .. (TOTAL_WORDS - 1) |-> WordAt(i)]

SPACE == 0

\* strings that are not in the table: "zzz", "" and "ab"
BadWords == {<<26, 26, 26>>, <<>>, <<1, 2>>}

\* every string passed to the provider: the table's words and the others
Texts == {WordAt(i) : i \in 0 .. (TOTAL_WORDS - 1)} \cup BadWords

---------------------------------------------------------------------------
(* Results.                                                                *)

Ok(v) == [tag |-> "Ok", val |-> v]
Err(e) == [tag |-> e, val |-> <<>>]
Panic == [tag |-> "panic", val |-> <<>>]

---------------------------------------------------------------------------
(* Bits11                                                                  *)

Bits11_from_OffByOne(i) ==
    IF i <= TOTAL_WORDS THEN Ok(<<i>>) ELSE Err("InvalidWordNumber")

Bits11_from(i) ==
    IF i < TOTAL_WORDS THEN Ok(<<i>>) ELSE Err("InvalidWordNumber")

---------------------------------------------------------------------------
(* MnemonicType                                                            *)

MnemonicType_from(len) ==
    IF len \in {12, 15, 18, 21, 24} THEN Ok(<<len>>) ELSE Err("WordsNumber")

checksum_bits_Words24Short(mt) ==
    CASE mt = 12 -> 4 [] mt = 15 -> 5 [] mt = 18 -> 6 [] mt = 21 -> 7
      [] mt = 24 -> 7

checksum_bits(mt) ==
    CASE mt = 12 -> 4 [] mt = 15 -> 5 [] mt = 18 -> 6 [] mt = 21 -> 7
      [] mt = 24 -> 8

entropy_bits(mt) ==
    CASE mt = 12 -> 128 [] mt = 15 -> 160 [] mt = 18 -> 192 [] mt = 21 -> 224
      [] mt = 24 -> 256

total_bits(mt) == entropy_bits(mt) + checksum_bits(mt)

---------------------------------------------------------------------------
(* BitsHelper                                                              *)

\* the 8 bits pushed by extend_from_byte, least significant first (a bug)
extend_from_byte_LsbFirst(byte) ==
    [i \in 1 .. BITS_IN_BYTE |-> BitOf(byte, i - 1)]

\* the 8 bits pushed by extend_from_byte: bit (BITS_IN_BYTE - 1 - i) for
\* i = 0 .. 7, here at position i + 1
extend_from_byte(byte) ==
    [i \in 1 .. BITS_IN_BYTE |-> BitOf(byte, BITS_IN_BYTE - i)]

\* extend_from_bits11 taking the first three bits of the high byte (a bug)
extend_from_bits11_HighBits(bits11) ==
    LET hi == (bits11 \div 256) % 256
        lo == bits11 % 256
    IN  [i \in 1 .. 3 |-> BitOf(hi, BITS_IN_BYTE - i)] \o extend_from_byte(lo)

\* the 11 bits pushed by extend_from_bits11: of the big-endian bytes of the
\* u16, the bits i = 5, 6, 7 (counted from the top) of the first, then all
\* of the second
extend_from_bits11(bits11) ==
    LET hi == (bits11 \div 256) % 256
        lo == bits11 % 256
        first == BITS_IN_BYTE - (BITS_IN_U11 % BITS_IN_BYTE)
    IN  [k \in 1 .. (BITS_IN_BYTE - first) |->
            BitOf(hi, BITS_IN_BYTE - 1 - (first + k - 1))]
        \o extend_from_byte(lo)

RECURSIVE BitsOfBytes(_)
BitsOfBytes(bytes) ==
    IF bytes = <<>> THEN <<>>
    ELSE extend_from_byte(Head(bytes)) \o BitsOfBytes(Tail(bytes))

RECURSIVE BitsOfSet(_)
BitsOfSet(set) ==
    IF set = <<>> THEN <<>>
    ELSE extend_from_bits11(Head(set)) \o BitsOfSet(Tail(set))

\* the value a chunk of at most `width` bits is assembled to: bit i of the
\* chunk (from 0) sets bit (width - 1 - i)
RECURSIVE ChunkValue(_, _, _)
ChunkValue(chunk, width, i) ==
    IF i > Len(chunk) THEN 0
    ELSE (IF chunk[i] THEN Pow2(width - i) ELSE 0)
         + ChunkValue(chunk, width, i + 1)

\* slice::chunks_exact(n): the full chunks only, the remainder is left out
chunks_exact(bits, n) ==
    [k \in 1 .. (Len(bits) \div n) |-> SubSeq(bits, (k - 1) * n + 1, k * n)]

\* slice::chunks(n): the last chunk may be shorter
chunks(bits, n) ==
    [k \in 1 .. ((Len(bits) + n - 1) \div n) |->
        SubSeq(bits, (k - 1) * n + 1, Min(k * n, Len(bits)))]

\* Zeroize of a Vec: every element is overwritten with its zero
ZeroizeBits(bits) == [i \in 1 .. Len(bits) |-> FALSE]
ZeroizeNums(v) == [i \in 1 .. Len(v) |-> 0]

---------------------------------------------------------------------------
(* The hash.  sha256_first_byte is the first byte of SHA-256 of its input; *)
(* the codec uses nothing of it but that it is one fixed function from     *)
(* byte strings to bytes.  Each behaviour fixes one such function by its   *)
(* salt: a position-sensitive fold of the input.                           *)

RECURSIVE Fold(_, _)
Fold(bytes, acc) ==
    IF bytes = <<>> THEN acc
    ELSE Fold(Tail(bytes), (acc * 31 + Head(bytes) + 7) % 256)

Digest0(s, input) == Fold(input, (s * 89 + Len(input)) % 256)

sha256_first_byte(input) == Digest0(salt, input)

\* the assertion of checksum(): bits <= BITS_IN_BYTE
checksum_assert(bits) == bits <= BITS_IN_BYTE

\* checksum() keeping the low bits instead of the high ones (a bug)
checksum_LowBits(source, bits) == source % Pow2(bits)

\* source >> (BITS_IN_BYTE - bits)
checksum(source, bits) == source \div Pow2(BITS_IN_BYTE - bits)

---------------------------------------------------------------------------
(* InternalWordList, the reference provider.                               *)

\* WORDLIST_ENGLISH[word_order]: an index outside the table aborts
get_word(bits) ==
    IF bits \in DOMAIN WORDLIST_ENGLISH THEN Ok(WORDLIST_ENGLISH[bits])
    ELSE Panic

\* the linear scan: the first position holding the word, through Bits11::from
scan_for_word(word) ==
    LET hits == {i \in DOMAIN WORDLIST_ENGLISH : WORDLIST_ENGLISH[i] = word}
    IN  IF hits = {} THEN Err("NoWord")
        ELSE Bits11_from(CHOOSE i \in hits : \A j \in hits : i <= j)

\* the scan's answer for every string a caller of this model passes
ScanTable == [word \in Texts |-> scan_for_word(word)]

bits11_for_word(word) == ScanTable[word]

---------------------------------------------------------------------------
(* WordSet                                                                 *)

NoFreed == [bits |-> <<>>, bytes |-> <<>>, old |-> <<>>, set |-> <<>>]

\* the length check of from_entropy with the upper end left out (a bug)
EntropyLenOk_Below32(n) == ~(n < 16 \/ n >= 32 \/ n % 4 # 0)

\* the length check of from_entropy
EntropyLenOk(n) == ~(n < 16 \/ n > 32 \/ n % 4 # 0)

\* from_entropy: [result, freed]
from_entropy(entropy) ==
    IF ~EntropyLenOk(Len(entropy))
    THEN [result |-> Err("InvalidEntropy"), freed |-> NoFreed]
    ELSE LET checksum_byte == sha256_first_byte(entropy)
             bits == BitsOfBytes(entropy) \o extend_from_byte(checksum_byte)
             ch == chunks_exact(bits, BITS_IN_U11)
             bits11_set == [k \in 1 .. Len(ch) |-> ChunkValue(ch[k], BITS_IN_U11, 1)]
         IN  [result |-> Ok(bits11_set),
              \* entropy_bits: BitsHelper is ZeroizeOnDrop
              freed |-> [NoFreed EXCEPT !.bits = ZeroizeBits(bits)]]

\* the capacity test of add_word letting a 25th index in (a bug)
HasRoom_OffByOne(n) == n <= MAX_SEED_LEN

\* the capacity test of add_word
HasRoom(n) == n < MAX_SEED_LEN

\* add_word: [result, set]
add_word(set, word) ==
    IF HasRoom(Len(set))
    THEN LET bits11 == bits11_for_word(word)
         IN  IF bits11.tag # "Ok" THEN [result |-> bits11, set |-> set]
             ELSE [result |-> Ok(<<>>), set |-> Append(set, bits11.val[1])]
    ELSE [result |-> Ok(<<>>), set |-> set]

is_finalizable(set) == MnemonicType_from(Len(set)).tag = "Ok"

\* to_entropy: [result, freed].  `moved` tells whether the allocator moved
\* the byte vector when it outgrew its capacity.
to_entropy(set, moved) ==
    LET mnemonic_type == MnemonicType_from(Len(set))
    IN  IF mnemonic_type.tag # "Ok"
        THEN [result |-> mnemonic_type, freed |-> NoFreed]
        ELSE
        LET mt == mnemonic_type.val[1]
            bits == BitsOfSet(set)
            cap == total_bits(mt) \div BITS_IN_BYTE
            ch == chunks(bits, BITS_IN_BYTE)
            entropy == [k \in 1 .. Len(ch) |-> ChunkValue(ch[k], BITS_IN_BYTE, 1)]
            \* a push beyond the capacity reallocates: the block left behind
            \* is released as it is
            old == IF Len(entropy) > cap /\ moved
                   THEN SubSeq(entropy, 1, cap) ELSE <<>>
            entropy_len == entropy_bits(mt) \div BITS_IN_BYTE
            \* BitsHelper is ZeroizeOnDrop, Vec<u8> is not
            unwound == [NoFreed EXCEPT !.bits = ZeroizeBits(bits),
                                       !.bytes = entropy, !.old = old]
        IN  IF entropy_len + 1 > Len(entropy) \/ ~checksum_assert(checksum_bits(mt))
            THEN [result |-> Panic, freed |-> unwound]
            ELSE
            LET actual_checksum == checksum(entropy[entropy_len + 1], checksum_bits(mt))
                truncated == SubSeq(entropy, 1, entropy_len)
                checksum_byte == sha256_first_byte(truncated)
                expected_checksum == checksum(checksum_byte, checksum_bits(mt))
            IN  IF actual_checksum # expected_checksum
                THEN [result |-> Err("InvalidChecksum"), freed |-> unwound]
                ELSE [result |-> Ok(truncated),
                      freed |-> [unwound EXCEPT !.bytes = <<>>]]

\* the capacity hint of to_phrase, an unsigned subtraction
phrase_capacity(n) == n * (WORD_MAX_LEN + SEPARATOR_LEN) - SEPARATOR_LEN

\* the loop of to_phrase over the rest of the set
RECURSIVE to_phrase_loop(_, _)
to_phrase_loop(rest, acc) ==
    IF rest = <<>> THEN Ok(acc)
    ELSE LET sep == IF acc # <<>> THEN <<SPACE>> ELSE <<>>
             word == get_word(Head(rest))
         IN  IF word.tag # "Ok" THEN word
             ELSE to_phrase_loop(Tail(rest), acc \o sep \o word.val)

\* to_phrase: a hint below zero overflows the subtraction (checked builds)
\* or wraps to a capacity no allocation can have (unchecked builds); both
\* abort the call
to_phrase(set) ==
    IF phrase_capacity(Len(set)) < 0 THEN Panic
    ELSE to_phrase_loop(set, <<>>)

---------------------------------------------------------------------------
(* The caller.                                                             *)

\* the words of a phrase, split at its spaces
RECURSIVE SplitPhrase(_, _, _)
SplitPhrase(s, i, cur) ==
    IF i > Len(s) THEN (IF cur = <<>> THEN <<>> ELSE <<cur>>)
    ELSE IF s[i] = SPACE
         THEN (IF cur = <<>> THEN <<>> ELSE <<cur>>) \o SplitPhrase(s, i + 1, <<>>)
         ELSE SplitPhrase(s, i + 1, Append(cur, s[i]))

PhraseWords == SplitPhrase(phrase, 1, <<>>)

\* the word the caller reads off the kept phrase next
NextWord ==
    LET words == PhraseWords
    IN  IF Len(ws) < Len(words) THEN {words[Len(ws) + 1]} ELSE {}

\* words typed freely: the first and the last of the table, and the strings
\* that are not in it
GoodWords == {WordAt(0), WordAt(TOTAL_WORDS - 1)}
FreeWords == GoodWords \cup BadWords

\* entropy contents: byte i of pattern p
EntByte(p, i) == (p * 85 + i * p * 37) % 256
Entropy(len, p) == [i \in 1 .. len |-> EntByte(p, i - 1)]
Entropies == {Entropy(len, p) : len \in 0 .. MaxEntLen, p \in 0 .. (NumPat - 1)}

\* arguments tried for Bits11::from (u16)
IndexArgs == {0, 1, TOTAL_WORDS - 1, TOTAL_WORDS, TOTAL_WORDS + 1, 65535}

Running == res.tag # "panic"

Call(op, arg, r) == [op |-> op, arg |-> arg, tag |-> r.tag, val |-> r.val]

NoHist == [kind |-> "none", src |-> <<>>, bit |-> 0]

---------------------------------------------------------------------------
(* Actions.                                                                *)

Init ==
    /\ salt \in 0 .. (NumSalts - 1)
    /\ live = TRUE
    /\ ws = <<>>
    /\ hist = [NoHist EXCEPT !.kind = "entered"]
    /\ phrase = <<>>
    /\ phraseSrc = <<>>
    /\ res = Call("new", <<>>, Ok(<<>>))
    /\ freed = NoFreed

New ==
    /\ Running /\ ~live
    /\ live' = TRUE
    /\ ws' = <<>>
    /\ hist' = [NoHist EXCEPT !.kind = "entered"]
    /\ res' = Call("new", <<>>, Ok(<<>>))
    /\ freed' = NoFreed
    /\ UNCHANGED <<phrase, phraseSrc, salt>>

FromEntropy(e) ==
    /\ Running /\ ~live
    /\ LET r == from_entropy(e)
       IN  /\ res' = Call("from_entropy", e, r.result)
           /\ freed' = r.freed
           /\ IF r.result.tag = "Ok"
              THEN /\ live' = TRUE
                   /\ ws' = r.result.val
                   /\ hist' = [NoHist EXCEPT !.kind = "encoded", !.src = e]
              ELSE UNCHANGED <<live, ws, hist>>
    \* the phrase of an earlier set is not kept
    /\ phrase' = <<>>
    /\ phraseSrc' = <<>>
    /\ UNCHANGED salt

\* the caller passes the next word of the kept phrase, or types a word
\* freely: into a short set, into a set made by from_entropy, into a full set
AddWord ==
    /\ Running /\ live
    /\ LET next == NextWord
           typing == \/ Len(ws) < MaxTyped
                     \/ Len(ws) >= MAX_SEED_LEN
                     \/ hist.kind = "encoded"
       IN  \E w \in (IF typing THEN FreeWords ELSE {}) \cup next :
             LET r == add_word(ws, w)
             IN  /\ res' = Call("add_word", w, r.result)
                 /\ ws' = r.set
                 /\ hist' = IF r.set = ws THEN hist
                            ELSE IF hist.kind = "entered" /\ w \in next
                                 THEN hist
                                 ELSE [NoHist EXCEPT !.kind = "typed"]
    /\ freed' = NoFreed
    /\ UNCHANGED <<live, phrase, phraseSrc, salt>>

ToEntropy ==
    /\ Running /\ live
    /\ \E moved \in BOOLEAN :
         LET r == to_entropy(ws, moved)
         IN  /\ res' = Call("to_entropy", <<>>, r.result)
             /\ freed' = r.freed
    /\ UNCHANGED <<live, ws, hist, phrase, phraseSrc, salt>>

ToPhrase ==
    /\ Running /\ live
    /\ LET r == to_phrase(ws)
       IN  /\ res' = Call("to_phrase", <<>>, r)
           /\ IF r.tag = "Ok" /\ hist.kind = "encoded"
              THEN phrase' = r.val /\ phraseSrc' = hist.src
              ELSE UNCHANGED <<phrase, phraseSrc>>
    /\ freed' = NoFreed
    /\ UNCHANGED <<live, ws, hist, salt>>

\* the caller overwrites the last index (bits11_set is a public field) by
\* the index differing from it in bit j
FlipBit(j) ==
    /\ Running /\ live
    /\ hist.kind = "encoded"
    /\ LET last == ws[Len(ws)]
           flipped == IF BitOf(last, j) THEN last - Pow2(j) ELSE last + Pow2(j)
       IN  ws' = [ws EXCEPT ![Len(ws)] = flipped]
    /\ hist' = [hist EXCEPT !.kind = "flipped", !.bit = j]
    /\ res' = Call("flip", <<j>>, Ok(<<>>))
    /\ freed' = NoFreed
    /\ UNCHANGED <<live, phrase, phraseSrc, salt>>

\* the WordSet goes out of scope: ZeroizeOnDrop
Drop ==
    /\ Running /\ live
    /\ live' = FALSE
    /\ ws' = <<>>
    /\ hist' = NoHist
    /\ res' = Call("drop", <<>>, Ok(<<>>))
    /\ freed' = [NoFreed EXCEPT !.set = ZeroizeNums(ws)]
    /\ UNCHANGED <<phrase, phraseSrc, salt>>

Bits11From(i) ==
    /\ Running /\ ~live
    /\ res' = Call("bits11_from", <<i>>, Bits11_from(i))
    /\ freed' = NoFreed
    /\ UNCHANGED <<live, ws, hist, phrase, phraseSrc, salt>>

Next ==
    \/ New
    \/ \E e \in Entropies : FromEntropy(e)
    \/ AddWord
    \/ ToEntropy
    \/ ToPhrase
    \/ \E j \in 0 .. (BITS_IN_U11 - 1) : FlipBit(j)
    \/ Drop
    \/ \E i \in IndexArgs : Bits11From(i)

Spec == Init /\ [][Next]_vars

---------------------------------------------------------------------------
(* Notions the properties are stated in, independent of the operators      *)
(* above.                                                                  *)

FinalLengths == {12, 15, 18, 21, 24}

\* the word count of an entropy length in bytes
WordCountOf(n) ==
    CASE n = 16 -> 12 [] n = 20 -> 15 [] n = 24 -> 18 [] n = 28 -> 21
      [] n = 32 -> 24 [] OTHER -> 0

InTable(word) == \E i \in 0 .. (TOTAL_WORDS - 1) : WordAt(i) = word

\* the table position of a three-letter word
PositionOf(word) == (word[1] - 1) * 676 + (word[2] - 1) * 26 + (word[3] - 1)

\* bit p (from 0, most significant first) of a sequence of units of `width`
\* bits each; FALSE beyond its end
BitAt(units, width, p) ==
    IF p < width * Len(units)
    THEN BitOf(units[(p \div width) + 1], width - 1 - (p % width))
    ELSE FALSE

\* the value of the `width` bits that start at bit p of a sequence of units
\* of `unit` bits each
UnitAt(units, unit, p, width) ==
    LET Bit(i) == IF BitAt(units, unit, p + i) THEN Pow2(width - 1 - i) ELSE 0
        Sum[i \in 0 .. width] == IF i = width THEN 0 ELSE Bit(i) + Sum[i + 1]
    IN  Sum[0]

\* the words of a set joined by single spaces
RECURSIVE Joined(_)
Joined(set) ==
    IF set = <<>> THEN <<>>
    ELSE IF Len(set) = 1 THEN WordAt(set[1])
    ELSE WordAt(set[1]) \o <<SPACE>> \o Joined(Tail(set))

NoBitSet(buf) == \A i \in 1 .. Len(buf) : buf[i] = FALSE
AllZero(buf) == \A i \in 1 .. Len(buf) : buf[i] = 0

---------------------------------------------------------------------------
(* Properties.                                                             *)

\* C1: round trip.  When every word of the phrase of from_entropy(e) has been
\* passed in order to add_word on a set made by new(), to_entropy of that
\* set returns exactly e.
C1_RoundTrip ==
    (/\ res.op = "to_entropy"
     /\ hist.kind = "entered"
     /\ phraseSrc # <<>>
     /\ Len(ws) = Len(PhraseWords))
    => (res.tag = "Ok" /\ res.val = phraseSrc)

C1_Witness ==
    /\ res.op = "to_entropy"
    /\ hist.kind = "entered"
    /\ Len(phraseSrc) = 32
    /\ phraseSrc[2] # 0
    /\ Len(ws) = Len(PhraseWords)
    /\ res.tag = "Ok"

\* C2: from_entropy fails with InvalidEntropy exactly for a byte length below
\* 16, above 32 or not divisible by 4, and otherwise returns a set of 12, 15,
\* 18, 21 or 24 indices for 16, 20, 24, 28 or 32 bytes.
C2_FromEntropyLength ==
    res.op = "from_entropy" =>
        LET n == Len(res.arg)
        IN  IF n < 16 \/ n > 32 \/ n % 4 # 0
            THEN res.tag = "InvalidEntropy"
            ELSE /\ res.tag = "Ok"
                 /\ Len(res.val) = WordCountOf(n)
                 /\ ws = res.val

C2_Witness ==
    /\ res.op = "from_entropy"
    /\ Len(res.arg) = 32
    /\ res.tag = "Ok"
    /\ Len(ws) = 24

\* C3: to_entropy has exactly three outcomes and never aborts: WordsNumber
\* iff the length is not 12, 15, 18, 21 or 24; else InvalidChecksum iff the
\* top checksum bits of the byte after the entropy differ from those of the
\* hash byte of the entropy; else the entropy bytes.
C3_ToEntropyOutcome ==
    res.op = "to_entropy" =>
        LET n == Len(ws)
            cb == n \div 3
            len == (n * 32) \div (3 * 8)
            lead == [m \in 1 .. len |-> UnitAt(ws, 11, 8 * (m - 1), 8)]
            trail == UnitAt(ws, 11, 8 * len, 8)
        IN  IF n \notin FinalLengths THEN res.tag = "WordsNumber"
            ELSE /\ cb <= 8
                 /\ 8 * len < 11 * n
                 /\ IF trail \div Pow2(8 - cb)
                         # sha256_first_byte(lead) \div Pow2(8 - cb)
                    THEN res.tag = "InvalidChecksum"
                    ELSE res.tag = "Ok" /\ res.val = lead

C3_Witness ==
    /\ res.op = "to_entropy"
    /\ Len(ws) = 21
    /\ res.tag = "InvalidChecksum"

\* C4: checksum sensitivity.  A set made by from_entropy in which one of the
\* last checksum bits of the final index is flipped fails to_entropy with
\* InvalidChecksum.
C4_ChecksumSensitivity ==
    (/\ res.op = "to_entropy"
     /\ hist.kind = "flipped"
     /\ hist.bit < Len(ws) \div 3)
    => res.tag = "InvalidChecksum"

C4_Witness ==
    /\ res.op = "to_entropy"
    /\ hist.kind = "flipped"
    /\ Len(ws) = 24
    /\ hist.bit = 0
    /\ res.tag = "InvalidChecksum"

\* C5: add_word with a text that is not in the word list returns NoWord and
\* leaves the set unchanged, whatever its length (0 through 24).
C5_UnknownWordRejected ==
    [][(res'.op = "add_word" /\ ~InTable(res'.arg))
         => (res'.tag = "NoWord" /\ ws' = ws)]_vars

\* C6: the length never exceeds 24; add_word with a word of the list appends
\* its index to a set of fewer than 24, and returns success leaving a set of
\* 24 unchanged.
C6_AddWordCapped ==
    [][/\ Len(ws') <= MAX_SEED_LEN
       /\ (res'.op = "add_word" /\ InTable(res'.arg)) =>
            /\ res'.tag = "Ok"
            /\ ws' = IF Len(ws) < 24 THEN Append(ws, PositionOf(res'.arg))
                     ELSE ws]_vars

C6_Witness ==
    /\ res.op = "add_word"
    /\ res.arg = WordAt(TOTAL_WORDS - 1)
    /\ hist.kind = "encoded"
    /\ Len(ws) = 24

\* C7: secure erasure.  Whatever from_entropy or to_entropy returns, the
\* bit vector and the regrouped byte vector, unless handed back to the
\* caller, hold zeroes only when released, and so does the index sequence
\* of a dropped WordSet.
C7_ReleasedMemoryZeroed ==
    res.op \in {"from_entropy", "to_entropy", "drop"} =>
        /\ NoBitSet(freed.bits)
        /\ AllZero(freed.bytes)
        /\ AllZero(freed.set)

\* C8: every stored index is below 2048, so that get_word stays inside the
\* table, and Bits11::from accepts exactly the values below 2048.
C8_IndexBelow2048 ==
    /\ \A k \in 1 .. Len(ws) : ws[k] < 2048 /\ get_word(ws[k]).tag = "Ok"
    /\ res.op = "bits11_from" =>
         IF res.arg[1] < 2048 THEN res.tag = "Ok" /\ res.val = res.arg
         ELSE res.tag = "InvalidWordNumber"

C8_Witness ==
    /\ Len(ws) = 24
    /\ ws[1] = 2047
    /\ \E k \in 2 .. 24 : ws[k] > 1024

\* C9: to_phrase of a set of 0 to 24 indices returns its words in order
\* joined by single spaces (the empty string for the empty set) and never
\* aborts.
C9_PhraseOfEverySet ==
    res.op = "to_phrase" => (res.tag = "Ok" /\ res.val = Joined(ws))

\* C10: most significant bit first.  The k-th index of from_entropy(e) is the
\* 11 bits 11k .. 11k+10 of the bits of e followed by the bits of the hash
\* byte; sixteen zero bytes give eleven indices 0 and a twelfth equal to the
\* top 4 bits of the hash byte.
C10_MsbFirstPacking ==
    (res.op = "from_entropy" /\ res.tag = "Ok") =>
        LET h == sha256_first_byte(res.arg)
            all == Append(res.arg, h)
        IN  /\ Len(res.val) = (8 * Len(all)) \div 11
            /\ \A k \in 1 .. Len(res.val) :
                 res.val[k] = UnitAt(all, 8, 11 * (k - 1), 11)
            /\ res.arg = [i \in 1 .. 16 |-> 0] =>
                 /\ Len(res.val) = 12
                 /\ \A k \in 1 .. 11 : res.val[k] = 0
                 /\ res.val[12] = h \div 16

C10_Witness ==
    /\ res.op = "from_entropy"
    /\ res.tag = "Ok"
    /\ res.arg = [i \in 1 .. 16 |-> 0]
    /\ res.val[12] # 0

====
